---- MODULE Spec2Model ----
(***************************************************************************)
(* Model of HW-TILE/tiling.cpp: the BFS augmenting-path search, the        *)
(* Edmonds-Karp max_flow built on it, the BiPartGraph construction and     *)
(* has_tiling.                                                             *)
(*                                                                         *)
(* A Vertex is a natural number (its identity).  The heap of Vertex        *)
(* objects is two variables: neighs, the set of pairs <<u, v>> with v in   *)
(* u->neighs, and weights, the function that maps <<u, v>> to              *)
(* u->weights[v].  The residual copy made by max_flow lives in             *)
(* resV/resNeighs/resWeights; the map C of max_flow sends a vertex to the  *)
(* residual vertex with the same number.                                   *)
(***************************************************************************)
EXTENDS Integers, Sequences, FiniteSets, TLC

\* Longest floor string has_tiling is run on.
MaxLen == 5
\* Largest number of edges of the graphs max_flow is called on directly.
MaxEdges == 3
\* Largest edge capacity of those graphs.
MaxCap == 2

VARIABLES
    caller,            \* who called max_flow: "has_tiling" or "driver"
    pc,                \* position in the code
    floor,             \* has_tiling's argument, a sequence of characters
    i,                 \* loop index of the loop being run (1-based)
    row, column,       \* loop-local coordinates (has_tiling, then constructGraph)
    modFloor,          \* has_tiling's modFloor
    firstElmnt, startsEven,
    blackCheckers, redCheckers, totalCheckers, vertexDictionary,
    result,            \* has_tiling's return value: "none", "true", "false"
    neighs, weights,   \* the caller's Vertex objects
    s, t, V,           \* max_flow's arguments
    resV, resNeighs, resWeights,   \* max_flow's residual graph
    Q, R, prev,        \* augmenting_path's BFS state
    P, found,          \* augmenting_path's out-parameter and return value
    flow,              \* max_flow's return value
    calls, flow1       \* number of max_flow calls made, first call's value

tileVars == <<floor, i, row, column, modFloor, firstElmnt, startsEven,
              blackCheckers, redCheckers, totalCheckers, vertexDictionary, result>>
graphVars == <<neighs, weights>>
argVars == <<s, t, V>>
resVars == <<resV, resNeighs, resWeights>>
bfsVars == <<Q, R, prev>>
vars == <<caller, pc, tileVars, graphVars, argVars, resVars, bfsVars,
          P, found, flow, calls, flow1>>

(***************************************************************************)
(* Helpers on the representation.                                          *)
(***************************************************************************)
EmptyMap == [x \in {} |-> 0]

\* v->neighs in the heap whose edge set is n.
NeighsOf(n, v) == {e[2] : e \in {d \in n : d[1] = v}}

\* All orders in which a loop over an unordered_set can visit the set S.
RECURSIVE IterationOrders(_)
IterationOrders(S) ==
    IF S = {} THEN {<<>>}
    ELSE UNION {{<<x>> \o o : o \in IterationOrders(S \ {x})} : x \in S}

(***************************************************************************)
(* augmenting_path                                                         *)
(***************************************************************************)
\* Line 57: the edge cur -> nei is skipped when its weight is 0.
Traversable(w, cur, nei) == w[<<cur, nei>>] # 0

\* Lines 54-66: the neighbours of cur that the loop pushes.
Discovered(n, w, reached, cur) ==
    {nei \in NeighsOf(n, cur) : Traversable(w, cur, nei) /\ nei \notin reached}

\* Lines 74-77: P = [t], then prev links are appended until s is reached.
RECURSIVE WalkBack(_, _, _)
WalkBack(pv, src, path) ==
    IF path[Len(path)] = src THEN path
    ELSE WalkBack(pv, src, Append(path, pv[path[Len(path)]]))

\* Lines 80-81: the swap loop reverses P in place.
\* (ReversePathOmitted: the path left in t-to-s order.)
ReversePathOmitted(path) == path
ReversePath(path) == [k \in 1..Len(path) |-> path[Len(path) + 1 - k]]

\* Lines 40-47.
AugPathStart ==
    /\ pc = "ap_start"
    /\ Q' = <<s>>
    /\ R' = {s}
    /\ prev' = EmptyMap
    /\ pc' = "ap_bfs"
    /\ UNCHANGED <<caller, tileVars, graphVars, argVars, resVars, P, found,
                   flow, calls, flow1>>

\* Lines 49-67: one iteration of the while loop.  The for loop visits
\* cur->neighs in an order the unordered_set chooses.
AugPathBfs ==
    /\ pc = "ap_bfs"
    /\ Q # <<>>
    /\ LET cur == Head(Q)
           new == Discovered(resNeighs, resWeights, R, cur)
       IN  /\ \E order \in IterationOrders(new) : Q' = Tail(Q) \o order
           /\ R' = R \cup new
           /\ prev' = [x \in DOMAIN prev \cup new |->
                          IF x \in new THEN cur ELSE prev[x]]
    /\ UNCHANGED <<caller, pc, tileVars, graphVars, argVars, resVars, P,
                   found, flow, calls, flow1>>

\* Lines 69-83.
AugPathReturn ==
    /\ pc = "ap_bfs"
    /\ Q = <<>>
    /\ found' = (t \in R)
    /\ P' = IF t \in R THEN ReversePath(WalkBack(prev, s, <<t>>)) ELSE P
    /\ pc' = "mf_loop"
    /\ UNCHANGED <<caller, tileVars, graphVars, argVars, resVars, bfsVars,
                   flow, calls, flow1>>

(***************************************************************************)
(* max_flow                                                                *)
(***************************************************************************)
\* Lines 91-111: s and t are in V and every neighbour has a weight.
Precondition(vs, n, w, src, snk) ==
    /\ src \in vs
    /\ snk \in vs
    /\ \A e \in n : e[1] \in vs => e \in DOMAIN w

\* Lines 116-127: the copies' neighs.
CopiedNeighs(vs, n) == {e \in n : e[1] \in vs}

\* Lines 129-137: the back edges that are added.
BackEdges(vs, n) ==
    {<<e[2], e[1]>> : e \in CopiedNeighs(vs, n)} \ CopiedNeighs(vs, n)

\* Lines 113-137: the weights of the residual graph.
ResidualWeights(vs, n, w) ==
    [e \in CopiedNeighs(vs, n) \cup BackEdges(vs, n) |->
        IF e \in CopiedNeighs(vs, n) THEN w[e] ELSE 0]

\* Lines 147-151: one unit along every edge of path, from edge k on.
\* (UpdateResidualNoReverse: the reverse edge is not incremented.)
RECURSIVE UpdateResidualNoReverse(_, _, _)
UpdateResidualNoReverse(w, path, k) ==
    IF k >= Len(path) THEN w
    ELSE UpdateResidualNoReverse(
             [w EXCEPT ![<<path[k], path[k + 1]>>] = @ - 1], path, k + 1)
RECURSIVE UpdateResidual(_, _, _)
UpdateResidual(w, path, k) ==
    IF k >= Len(path) THEN w
    ELSE UpdateResidual(
             [w EXCEPT ![<<path[k], path[k + 1]>>] = @ - 1,
                       ![<<path[k + 1], path[k]>>] = @ + 1],
             path, k + 1)

\* Lines 155-157: flow += 1 - C[s]->weights[snp] over C[s]->neighs.
RECURSIVE FlowAmount(_, _, _)
FlowAmount(w, src, nbrs) ==
    IF nbrs = {} THEN 0
    ELSE LET snp == CHOOSE x \in nbrs : TRUE
         IN  (1 - w[<<src, snp>>]) + FlowAmount(w, src, nbrs \ {snp})

\* Lines 88-137.
MaxFlowBegin ==
    /\ pc = "mf_entry"
    /\ calls' = calls + 1
    /\ IF Precondition(V, neighs, weights, s, t)
       THEN /\ resV' = V
            /\ resNeighs' = CopiedNeighs(V, neighs) \cup BackEdges(V, neighs)
            /\ resWeights' = ResidualWeights(V, neighs, weights)
            /\ pc' = "ap_start"
       ELSE /\ pc' = "abort"
            /\ UNCHANGED resVars
    /\ P' = <<>>
    /\ UNCHANGED <<caller, tileVars, graphVars, argVars, bfsVars, found,
                   flow, flow1>>

\* Lines 147-151 write the residual graph only.
\* (AugmentWritesCallerGraph: the update lands in the caller's vertices.)
AugmentWritesCallerGraph ==
    /\ weights' = UpdateResidual(weights, P, 1)
    /\ UNCHANGED <<neighs, resVars>>
AugmentWrites ==
    /\ resWeights' = UpdateResidual(resWeights, P, 1)
    /\ UNCHANGED <<resV, resNeighs, graphVars>>

\* Lines 140-152: the body of while (true) after augmenting_path returned.
MaxFlowLoop ==
    /\ pc = "mf_loop"
    /\ IF found
       THEN /\ AugmentWrites
            /\ P' = <<>>
            /\ pc' = "ap_start"
       ELSE /\ pc' = "mf_sum"
            /\ UNCHANGED <<graphVars, resVars, P>>
    /\ UNCHANGED <<caller, tileVars, argVars, bfsVars, found, flow, calls,
                   flow1>>

\* Lines 155-157.
MaxFlowSum ==
    /\ pc = "mf_sum"
    /\ flow' = FlowAmount(resWeights, s, NeighsOf(resNeighs, s))
    /\ pc' = "mf_delete"
    /\ UNCHANGED <<caller, tileVars, graphVars, argVars, resVars, bfsVars,
                   P, found, calls, flow1>>

\* Lines 160-163.
MaxFlowReturn ==
    /\ pc = "mf_delete"
    /\ resV' = {}
    /\ resNeighs' = {}
    /\ resWeights' = EmptyMap
    /\ pc' = IF caller = "has_tiling" THEN "ht_compare" ELSE "returned"
    /\ UNCHANGED <<caller, tileVars, graphVars, argVars, bfsVars, P, found,
                   flow, calls, flow1>>

(***************************************************************************)
(* BiPartGraph                                                             *)
(***************************************************************************)
\* Lines 264-265: the constructor allocates source, then sink.
Source == 1
Sink == 2

\* Lines 294 and 305: new Vertex(), an identity no live vertex has.
NewVertex(total) == Cardinality(total) + 3

\* Lines 195-205: up, down, left, right of a coordinate pair.
FourNeighbours(c) ==
    {<<c[1] - 1, c[2]>>, <<c[1] + 1, c[2]>>, <<c[1], c[2] - 1>>, <<c[1], c[2] + 1>>}

\* Lines 188-232: the black -> red edges that addNeighbors inserts.
\* (AddNeighborsAnyPair: the coordinates are not compared.)
AddNeighborsAnyPair(black, red, dict) == black \X red
AddNeighbors(black, red, dict) ==
    {e \in black \X red : dict[e[2]] \in FourNeighbours(dict[e[1]])}

\* Lines 235-244: the source -> black edges.
SetSource(black) == {<<Source, b>> : b \in black}

\* Lines 247-256: the red -> sink edges.
SetSink(red) == {<<r, Sink>> : r \in red}

\* Lines 270-276.
\* (IsValidAlways: the counts are not compared.)
IsValidAlways(black, red) == TRUE
IsValid(black, red) == Cardinality(black) = Cardinality(red)

\* Lines 283-314: one iteration of constructGraph's loop.
ConstructStep ==
    /\ pc = "construct"
    /\ i <= Len(modFloor)
    /\ LET ch == modFloor[i]
           baby == NewVertex(totalCheckers)
       IN  IF ch = "#"
           THEN /\ column' = column + 1
                /\ UNCHANGED <<row, blackCheckers, redCheckers, totalCheckers,
                               vertexDictionary>>
           ELSE IF ch = "\n"
           THEN /\ row' = row + 1
                /\ column' = 0
                /\ UNCHANGED <<blackCheckers, redCheckers, totalCheckers,
                               vertexDictionary>>
           ELSE /\ blackCheckers' =
                       IF ch = "b" THEN blackCheckers \cup {baby} ELSE blackCheckers
                /\ redCheckers' =
                       IF ch = "b" THEN redCheckers ELSE redCheckers \cup {baby}
                /\ totalCheckers' = totalCheckers \cup {baby}
                /\ vertexDictionary' =
                       [v \in DOMAIN vertexDictionary \cup {baby} |->
                           IF v = baby THEN <<row, column>>
                           ELSE vertexDictionary[v]]
                /\ column' = column + 1
                /\ UNCHANGED row
    /\ i' = i + 1
    /\ UNCHANGED <<caller, pc, floor, modFloor, firstElmnt, startsEven, result,
                   graphVars, argVars, resVars, bfsVars, P, found, flow, calls,
                   flow1>>

\* Lines 315-317: addNeighbors(); setSource(); setSink().
ConstructWire ==
    /\ pc = "construct"
    /\ i > Len(modFloor)
    /\ neighs' = neighs \cup AddNeighbors(blackCheckers, redCheckers, vertexDictionary)
                        \cup SetSource(blackCheckers) \cup SetSink(redCheckers)
    /\ weights' = [e \in neighs' |-> 1]
    /\ totalCheckers' = totalCheckers \cup {Source, Sink}
    /\ pc' = "isValid"
    /\ UNCHANGED <<caller, floor, i, row, column, modFloor, firstElmnt,
                   startsEven, blackCheckers, redCheckers, vertexDictionary,
                   result, argVars, resVars, bfsVars, P, found, flow, calls,
                   flow1>>

(***************************************************************************)
(* has_tiling                                                              *)
(***************************************************************************)
\* Lines 401-443: the character appended to modFloor for an open cell.
CheckerColour(first, even, r, c) ==
    IF ~first THEN "b"
    ELSE IF even
    THEN IF r % 2 # 0
         THEN (IF c % 2 = 0 THEN "b" ELSE "r")
         ELSE (IF c % 2 # 0 THEN "b" ELSE "r")
    ELSE IF r % 2 # 0
         THEN (IF c % 2 = 0 THEN "r" ELSE "b")
         ELSE (IF c % 2 # 0 THEN "r" ELSE "b")

\* Line 399: the characters has_tiling treats as an open cell.
\* (IsOpenCharAnyOther: every character but '#' and '\n' is an open cell.)
IsOpenCharAnyOther(ch) == ch # "#" /\ ch # "\n"
IsOpenChar(ch) == ch = " "

\* Lines 386-446: one iteration of the colouring loop.
ColourStep ==
    /\ pc = "colour"
    /\ i <= Len(floor)
    /\ LET ch == floor[i]
       IN  IF ch = "#"
           THEN /\ modFloor' = Append(modFloor, ch)
                /\ column' = column + 1
                /\ UNCHANGED <<row, firstElmnt, startsEven>>
           ELSE IF ch = "\n"
           THEN /\ row' = row + 1
                /\ column' = 0
                /\ modFloor' = Append(modFloor, ch)
                /\ UNCHANGED <<firstElmnt, startsEven>>
           ELSE IF IsOpenChar(ch)
           THEN /\ modFloor' = Append(modFloor,
                                  CheckerColour(firstElmnt, startsEven, row, column))
                /\ startsEven' = IF firstElmnt THEN startsEven ELSE column % 2 = 0
                /\ firstElmnt' = TRUE
                /\ column' = column + 1
                /\ UNCHANGED row
           ELSE UNCHANGED <<modFloor, row, column, firstElmnt, startsEven>>
    /\ i' = i + 1
    /\ UNCHANGED <<caller, pc, floor, blackCheckers, redCheckers, totalCheckers,
                   vertexDictionary, result, graphVars, argVars, resVars,
                   bfsVars, P, found, flow, calls, flow1>>

\* Lines 448-450: the colouring loop is over; constructGraph(modFloor) starts.
ConstructBegin ==
    /\ pc = "colour"
    /\ i > Len(floor)
    /\ pc' = "construct"
    /\ i' = 1
    /\ row' = 0
    /\ column' = 0
    /\ UNCHANGED <<caller, floor, modFloor, firstElmnt, startsEven,
                   blackCheckers, redCheckers, totalCheckers, vertexDictionary,
                   result, graphVars, argVars, resVars, bfsVars, P, found, flow,
                   calls, flow1>>

\* Lines 452-461: the validity precheck, then getFlow().
IsValidCheck ==
    /\ pc = "isValid"
    /\ IF IsValid(blackCheckers, redCheckers)
       THEN /\ s' = Source
            /\ t' = Sink
            /\ V' = totalCheckers
            /\ pc' = "mf_entry"
            /\ UNCHANGED result
       ELSE /\ result' = "false"
            /\ pc' = "done"
            /\ UNCHANGED argVars
    /\ UNCHANGED <<caller, floor, i, row, column, modFloor, firstElmnt,
                   startsEven, blackCheckers, redCheckers, totalCheckers,
                   vertexDictionary, graphVars, resVars, bfsVars, P, found,
                   flow, calls, flow1>>

\* Lines 462-471: numB = getB(); return flow == numB.
HasTilingCompare ==
    /\ pc = "ht_compare"
    /\ result' = IF flow = Cardinality(blackCheckers) THEN "true" ELSE "false"
    /\ pc' = "done"
    /\ UNCHANGED <<caller, floor, i, row, column, modFloor, firstElmnt,
                   startsEven, blackCheckers, redCheckers, totalCheckers,
                   vertexDictionary, graphVars, argVars, resVars, bfsVars, P,
                   found, flow, calls, flow1>>

(***************************************************************************)
(* The two ways the code is entered: has_tiling(floor) on a floor string,  *)
(* and max_flow(s, t, V) on a graph, called twice on the same graph.       *)
(***************************************************************************)
Alphabet == {"#", " ", "\n", "x"}
Floors == UNION {[1..n -> Alphabet] : n \in 0..MaxLen}

\* The graphs max_flow is called on directly have four vertices.
FlowVertices == {1, 2, 3, 4}
Capacities == 0..MaxCap
FlowPairs == {e \in FlowVertices \X FlowVertices : e[1] # e[2]}
FlowEdgeSets == {E \in SUBSET FlowPairs : Cardinality(E) <= MaxEdges}

\* Line 376: has_tiling(floor); startsEven, line 383, is not initialised.
InitTiling ==
    /\ caller = "has_tiling"
    /\ pc = "colour"
    /\ floor \in Floors
    /\ i = 1
    /\ row = 0
    /\ column = 0
    /\ modFloor = <<>>
    /\ firstElmnt = FALSE
    /\ startsEven \in BOOLEAN
    /\ blackCheckers = {}
    /\ redCheckers = {}
    /\ totalCheckers = {}
    /\ vertexDictionary = EmptyMap
    /\ result = "none"
    /\ neighs = {}
    /\ weights = EmptyMap
    /\ s = Source
    /\ t = Sink
    /\ V = {}
    /\ resV = {}
    /\ resNeighs = {}
    /\ resWeights = EmptyMap
    /\ Q = <<>>
    /\ R = {}
    /\ prev = EmptyMap
    /\ P = <<>>
    /\ found = FALSE
    /\ flow = 0
    /\ calls = 0
    /\ flow1 = 0

\* Line 88: max_flow(s, t, V) on a graph with non-negative capacities.
InitFlow ==
    /\ caller = "driver"
    /\ pc = "mf_entry"
    /\ floor = <<>>
    /\ i = 1
    /\ row = 0
    /\ column = 0
    /\ modFloor = <<>>
    /\ firstElmnt = FALSE
    /\ startsEven = FALSE
    /\ blackCheckers = {}
    /\ redCheckers = {}
    /\ totalCheckers = {}
    /\ vertexDictionary = EmptyMap
    /\ result = "none"
    /\ neighs \in FlowEdgeSets
    /\ weights \in [neighs -> Capacities]
    /\ s = 1
    /\ t \in {1, 4}
    /\ V = FlowVertices
    /\ resV = {}
    /\ resNeighs = {}
    /\ resWeights = EmptyMap
    /\ Q = <<>>
    /\ R = {}
    /\ prev = EmptyMap
    /\ P = <<>>
    /\ found = FALSE
    /\ flow = 0
    /\ calls = 0
    /\ flow1 = 0

\* Line 88: max_flow is called a second time on the same, untouched V.
CallAgain ==
    /\ pc = "returned"
    /\ calls < 2
    /\ flow1' = flow
    /\ pc' = "mf_entry"
    /\ UNCHANGED <<caller, tileVars, graphVars, argVars, resVars, bfsVars, P,
                   found, flow, calls>>

Init == InitTiling \/ InitFlow

Next ==
    \/ ColourStep
    \/ ConstructBegin
    \/ ConstructStep
    \/ ConstructWire
    \/ IsValidCheck
    \/ MaxFlowBegin
    \/ AugPathStart
    \/ AugPathBfs
    \/ AugPathReturn
    \/ MaxFlowLoop
    \/ MaxFlowSum
    \/ MaxFlowReturn
    \/ HasTilingCompare
    \/ CallAgain

Spec == Init /\ [][Next]_vars

\* The code runs to completion: no step that can be taken is put off for ever.
FairSpec == Spec /\ WF_vars(Next)

(***************************************************************************)
(* The notions the properties below are stated in.  They are defined from  *)
(* the mathematics, not from the code above.                               *)
(***************************************************************************)
\* The open cells of a floor string.  With anyOther, every character other
\* than '#' and '\n' is an open cell that takes a column; without it only ' '
\* is, and any other character takes no column.
RECURSIVE OpenCells(_, _, _, _, _)
OpenCells(f, k, r, c, anyOther) ==
    IF k > Len(f) THEN {}
    ELSE IF f[k] = "\n" THEN OpenCells(f, k + 1, r + 1, 0, anyOther)
    ELSE IF f[k] = "#" THEN OpenCells(f, k + 1, r, c + 1, anyOther)
    ELSE IF f[k] = " " \/ anyOther
    THEN {<<r, c>>} \cup OpenCells(f, k + 1, r, c + 1, anyOther)
    ELSE OpenCells(f, k + 1, r, c, anyOther)

SpaceCells(f) == OpenCells(f, 1, 0, 0, FALSE)
AnyOtherCells(f) == OpenCells(f, 1, 0, 0, TRUE)

Abs(x) == IF x < 0 THEN -x ELSE x
Adjacent(a, b) == Abs(a[1] - b[1]) + Abs(a[2] - b[2]) = 1

\* A set of cells can be covered by dominoes, each on two adjacent cells.
RECURSIVE Tileable(_)
Tileable(cells) ==
    IF cells = {} THEN TRUE
    ELSE LET c == CHOOSE x \in cells : TRUE
         IN  \E d \in cells : Adjacent(c, d) /\ Tileable(cells \ {c, d})

RECURSIVE SumWeights(_, _)
SumWeights(w, edges) ==
    IF edges = {} THEN 0
    ELSE LET e == CHOOSE x \in edges : TRUE
         IN  w[e] + SumWeights(w, edges \ {e})

\* The maximum flow from src to snk, as the capacity of a minimum cut.
CutCapacity(n, w, side) == SumWeights(w, {e \in n : e[1] \in side /\ e[2] \notin side})
MaxFlowValue(vs, n, w, src, snk) ==
    LET cuts == {side \in SUBSET vs : src \in side /\ snk \notin side}
    IN  CHOOSE c \in {CutCapacity(n, w, side) : side \in cuts} :
            \A side \in cuts : c <= CutCapacity(n, w, side)

\* The vertices within k positive-capacity edges of src.
RECURSIVE Within(_, _, _, _)
Within(n, w, src, k) ==
    IF k = 0 THEN {src}
    ELSE LET near == Within(n, w, src, k - 1)
         IN  near \cup {e[2] : e \in {d \in n : d[1] \in near /\ w[d] > 0}}

Reachable(vs, n, w, src, dst) == dst \in Within(n, w, src, Cardinality(vs))
Distance(vs, n, w, src, dst) ==
    CHOOSE k \in 0..Cardinality(vs) :
        /\ dst \in Within(n, w, src, k)
        /\ \A j \in 0..(k - 1) : dst \notin Within(n, w, src, j)

CellsOfGraph == {vertexDictionary[v] : v \in DOMAIN vertexDictionary}
ParityOf(v) == (vertexDictionary[v][1] + vertexDictionary[v][2]) % 2
Constructed == caller = "has_tiling" /\ pc \notin {"colour", "construct"}
ResidualAlive == pc \in {"ap_start", "ap_bfs", "mf_loop", "mf_sum", "mf_delete"}
InMaxFlow == pc = "mf_entry" \/ ResidualAlive
ResidualAt(w, e) == IF e \in DOMAIN w THEN w[e] ELSE 0
Mirror(e) == <<e[2], e[1]>>

\* The black -> red edges that carry one unit of flow.
SaturatedEdges ==
    {e \in (blackCheckers \X redCheckers) \cap neighs : resWeights[e] = 0}

(***************************************************************************)
(* Properties                                                              *)
(***************************************************************************)
\* C1: for every floor over '#', ' ' and '\n' whose open cells can be tiled
\* by dominoes, has_tiling returns true.
C1_Completeness ==
    (/\ caller = "has_tiling"
     /\ pc = "done"
     /\ \A k \in 1..Len(floor) : floor[k] # "x"
     /\ Tileable(SpaceCells(floor)))
    => result = "true"

\* C2: whenever has_tiling returns true, the flow max_flow returned is the
\* number of black vertices and the grid has a domino tiling; and when
\* max_flow has computed such a flow, the saturated black -> red edges join
\* adjacent cells and cover every open cell exactly once.
C2_Soundness ==
    caller = "has_tiling" =>
        /\ result = "true" =>
               /\ flow = Cardinality(blackCheckers)
               /\ Tileable(CellsOfGraph)
        /\ (pc = "mf_delete" /\ flow = Cardinality(blackCheckers)) =>
               /\ \A e \in SaturatedEdges :
                      Adjacent(vertexDictionary[e[1]], vertexDictionary[e[2]])
               /\ \A v \in DOMAIN vertexDictionary :
                      Cardinality({e \in SaturatedEdges : v = e[1] \/ v = e[2]}) = 1

C2_Witness ==
    /\ caller = "has_tiling"
    /\ result = "true"
    /\ Cardinality(blackCheckers) = 2

\* C3: the colouring is the checkerboard colouring: two open cells have the
\* same colour exactly when row + column has the same parity in both, so
\* adjacent open cells have opposite colours.
C3_Checkerboard ==
    Constructed =>
        \A u, v \in DOMAIN vertexDictionary :
            (ParityOf(u) = ParityOf(v)) <=> (u \in blackCheckers <=> v \in blackCheckers)

\* C4: max_flow returns the maximum flow from s to t.
C4_MaxFlow ==
    (pc = "mf_delete" /\ s # t) => flow = MaxFlowValue(V, neighs, weights, s, t)

\* C5: no step of max_flow changes the caller's graph, and the second call
\* on the same graph returns what the first call returned.
C5_FrameIdempotent ==
    /\ [][InMaxFlow => (neighs' = neighs /\ weights' = weights)]_vars
    /\ []((pc = "returned" /\ calls = 2) => flow = flow1)

C5_Witness ==
    /\ pc = "returned"
    /\ calls = 2
    /\ flow = flow1
    /\ s # t
    /\ MaxFlowValue(V, neighs, weights, s, t) = 2

\* C6: when t can be reached from s over edges of positive capacity,
\* augmenting_path returns true and P runs from s to t over edges of positive
\* capacity, with as few edges as any such path.
C6_ShortestPath ==
    (pc = "mf_loop" /\ Reachable(resV, resNeighs, resWeights, s, t)) =>
        /\ found
        /\ P[1] = s
        /\ P[Len(P)] = t
        /\ \A k \in 1..(Len(P) - 1) :
               /\ <<P[k], P[k + 1]>> \in resNeighs
               /\ resWeights[<<P[k], P[k + 1]>>] > 0
        /\ Len(P) - 1 = Distance(resV, resNeighs, resWeights, s, t)

C6_Witness ==
    /\ pc = "mf_loop"
    /\ found
    /\ Len(P) = 4
    /\ caller = "driver"

\* C7: when the black and red vertex counts differ, has_tiling returns false
\* and max_flow is not called.
C7_Precheck ==
    (Constructed /\ Cardinality(blackCheckers) # Cardinality(redCheckers)) =>
        /\ calls = 0
        /\ pc \in {"isValid", "done"}
        /\ pc = "done" => result = "false"

C7_Witness ==
    /\ Constructed
    /\ Cardinality(blackCheckers) # Cardinality(redCheckers)
    /\ pc = "done"
    /\ result = "false"
    /\ calls = 0

\* C8, as claimed: every character other than '#' and '\n' is an open cell
\* that takes one column and gets exactly one vertex at its (row, column).
C8_AnyOtherCharOpen ==
    Constructed =>
        /\ CellsOfGraph = AnyOtherCells(floor)
        /\ Cardinality(DOMAIN vertexDictionary) = Cardinality(AnyOtherCells(floor))

\* C8, amended: every ' ' is an open cell that takes one column and gets
\* exactly one vertex at its (row, column); a character other than '#', ' '
\* and '\n' takes no column and gets no vertex.
C8_SpaceCharOpen ==
    Constructed =>
        /\ CellsOfGraph = SpaceCells(floor)
        /\ Cardinality(DOMAIN vertexDictionary) = Cardinality(SpaceCells(floor))
        /\ DOMAIN vertexDictionary = blackCheckers \cup redCheckers

C8_Witness ==
    /\ Constructed
    /\ \E k \in 1..Len(floor) : floor[k] = "x"
    /\ \E k \in 1..Len(floor) : floor[k] = "#"
    /\ Cardinality(DOMAIN vertexDictionary) = 2

\* C9: every call of max_flow returns.
C9_Terminates == [](pc = "mf_entry" => <>(pc \in {"returned", "ht_compare"}))

\* C10: while the residual graph is alive, every residual capacity is at
\* least 0 and residual(u -> v) + residual(v -> u) is what it was when the
\* residual graph was built.
C10_Residual ==
    ResidualAlive =>
        LET built == ResidualWeights(V, neighs, weights)
        IN  /\ DOMAIN resWeights = DOMAIN built
            /\ \A e \in DOMAIN resWeights :
                   /\ resWeights[e] >= 0
                   /\ resWeights[e] + ResidualAt(resWeights, Mirror(e))
                          = built[e] + ResidualAt(built, Mirror(e))

C10_Witness ==
    /\ pc = "mf_loop"
    /\ ~found
    /\ \E e \in DOMAIN resWeights :
           /\ resWeights[e] = 2
           /\ ResidualWeights(V, neighs, weights)[e] = 0

====
